---------------------------- MODULE Spec2Model ----------------------------
(***************************************************************************)
(* Model of the generate -> extract -> persist -> execute -> retry loop of *)
(* backend/web_app.py (the /generate route and its helpers).               *)
(*                                                                         *)
(* Texts are sequences of tokens; a token is a string standing for a run   *)
(* of characters that the regular expressions of the extractor treat as a  *)
(* unit (a fence, a tag, a "def" header, a body line, white space, prose). *)
(* The markdown fence is written FENCE because the three-backquote         *)
(* sequence cannot appear in a TLA+ string.                                *)
(***************************************************************************)
EXTENDS Naturals, Sequences, FiniteSets, TLC

VARIABLES disk, owner, req, started, allowShared, ex, rt, served, cli

vars == <<disk, owner, req, started, allowShared, ex, rt, served, cli>>

(***************************************************************************)
(* Bounds of the model                                                     *)
(***************************************************************************)
\* number of /generate requests that arrive in one behaviour, numbered in
\* the order of their arrival; each is served by a thread of its own
MaxRequests == 2

Requests == 1..MaxRequests

(***************************************************************************)
(* Program constants                                                       *)
(***************************************************************************)
\* mutant: the loop runs once more than the budget
max_retries_plus_one == 3 + 1

max_retries == 3

(***************************************************************************)
(* Token classes                                                           *)
(***************************************************************************)
FencePy == "FENCE:python\n"
FencePlain == "FENCE:\n"
FenceBare == "FENCE:"
TagOpen == "[PYTHON]"
TagClose == "[/PYTHON]"
NL == "\n"
NLNL == "\n\n"
Indent == "    "

Whitespace == {NL, NLNL, Indent}

\* text matched by  def\s+(?!test_)\w+\([^)]*\):
FuncDefs == {"def is_even(n):", "def helper(x):", "def scale(k):", "def inner(v):"}
\* text matched by  def\s+test_\w+\([^)]*\):
TestDefs == {"def test_is_even():", "def test_helper():"}

\* an opening fence is FENCE, an optional "python", a newline; any FENCE closes
FenceOpens == {FencePy, FencePlain}
FenceCloses == {FencePy, FencePlain, FenceBare}
\* a function header with a return annotation:  \):  does not occur in it,
\* so neither definition pattern matches it
AnnotatedDefs == {"def is_odd(n) -> bool:"}
\* text matched by  def\s+
AnyDefs == FuncDefs \cup TestDefs \cup AnnotatedDefs

(***************************************************************************)
(* String helpers: str.strip, str.join, "in"                               *)
(***************************************************************************)
RECURSIVE LStrip(_)
LStrip(s) ==
    IF s # <<>> /\ Head(s) \in Whitespace THEN LStrip(Tail(s)) ELSE s

RECURSIVE RStrip(_)
RStrip(s) ==
    IF s # <<>> /\ s[Len(s)] \in Whitespace
    THEN RStrip(SubSeq(s, 1, Len(s) - 1))
    ELSE s

Strip(s) == RStrip(LStrip(s))

RECURSIVE Join(_, _)
Join(parts, sep) ==
    IF parts = <<>> THEN <<>>
    ELSE IF Len(parts) = 1 THEN parts[1]
    ELSE parts[1] \o sep \o Join(Tail(parts), sep)

Contains(text, sub) ==
    \E i \in 1..(Len(text) + 1) :
        /\ i + Len(sub) - 1 <= Len(text)
        /\ SubSeq(text, i, i + Len(sub) - 1) = sub

\* index of the first token at or after position i that is in the set toks,
\* Len(s) + 1 when there is none
RECURSIVE FirstFrom(_, _, _)
FirstFrom(s, i, toks) ==
    IF i > Len(s) THEN Len(s) + 1
    ELSE IF s[i] \in toks THEN i
    ELSE FirstFrom(s, i + 1, toks)

(***************************************************************************)
(* re.findall of the two block conventions                                 *)
(***************************************************************************)
\* re.findall(r"FENCE(?:python)?\n(.*?)FENCE", response, re.DOTALL)
RECURSIVE FencedBlocks(_, _)
FencedBlocks(s, i) ==
    LET o == FirstFrom(s, i, FenceOpens)
        c == FirstFrom(s, o + 1, FenceCloses)
    IN  IF o > Len(s) \/ c > Len(s) THEN <<>>
        ELSE <<SubSeq(s, o + 1, c - 1)>> \o FencedBlocks(s, c + 1)

\* re.findall(r"\[PYTHON\](.*?)\[/PYTHON\]", response, re.DOTALL)
RECURSIVE TaggedBlocks(_, _)
TaggedBlocks(s, i) ==
    LET o == FirstFrom(s, i, {TagOpen})
        c == FirstFrom(s, o + 1, {TagClose})
    IN  IF o > Len(s) \/ c > Len(s) THEN <<>>
        ELSE <<SubSeq(s, o + 1, c - 1)>> \o TaggedBlocks(s, c + 1)

StripAll(blocks) == [k \in 1..Len(blocks) |-> Strip(blocks[k])]

\* fenced blocks first, then tagged blocks, each stripped
CodeBlocks(response) ==
    StripAll(FencedBlocks(response, 1)) \o StripAll(TaggedBlocks(response, 1))

(***************************************************************************)
(* re.findall of the two definition patterns                               *)
(***************************************************************************)
\* func_pattern: from a non-test def header, lazily, up to the next
\* "def test_" header (wherever it stands) or the end of the buffer
RECURSIVE FuncMatches(_, _)
FuncMatches(s, i) ==
    LET b == FirstFrom(s, i, FuncDefs)
        e == FirstFrom(s, b + 1, TestDefs)
    IN  IF b > Len(s) THEN <<>>
        ELSE <<SubSeq(s, b, e - 1)>> \o FuncMatches(s, e)

\* test_pattern: from a test def header, lazily, up to the next "def"
\* header of either kind (wherever it stands) or the end of the buffer
RECURSIVE TestMatches(_, _)
TestMatches(s, i) ==
    LET b == FirstFrom(s, i, TestDefs)
        e == FirstFrom(s, b + 1, AnyDefs)
    IN  IF b > Len(s) THEN <<>>
        ELSE <<SubSeq(s, b, e - 1)>> \o TestMatches(s, e)

\* mutant: the check of test_matches is left out
Extract_NoTestCheck(response) ==
    LET code_blocks == CodeBlocks(response)
        combined_code == Join(code_blocks, <<NLNL>>)
        func_matches == FuncMatches(combined_code, 1)
        test_matches == TestMatches(combined_code, 1)
    IN  IF code_blocks = <<>> \/ func_matches = <<>>
        THEN [success |-> FALSE, func_code |-> <<>>, test_code |-> <<>>]
        ELSE [success |-> TRUE,
              func_code |-> Join(StripAll(func_matches), <<NLNL>>),
              test_code |-> Join(StripAll(test_matches), <<NLNL>>)]

\* the extraction part of save_code_and_tests: (success, func_code, test_code)
Extract(response) ==
    LET code_blocks == CodeBlocks(response)
        combined_code == Join(code_blocks, <<NLNL>>)
        func_matches == FuncMatches(combined_code, 1)
        test_matches == TestMatches(combined_code, 1)
    IN  IF code_blocks = <<>>
        THEN [success |-> FALSE, func_code |-> <<>>, test_code |-> <<>>]
        ELSE IF func_matches = <<>>
        THEN [success |-> FALSE, func_code |-> <<>>, test_code |-> <<>>]
        ELSE IF test_matches = <<>>
        THEN [success |-> FALSE, func_code |-> <<>>, test_code |-> <<>>]
        ELSE [success |-> TRUE,
              func_code |-> Join(StripAll(func_matches), <<NLNL>>),
              test_code |-> Join(StripAll(test_matches), <<NLNL>>)]

(***************************************************************************)
(* The model client                                                        *)
(***************************************************************************)
TransportError == <<"ConnectionError: connection refused">>

\* generate_task: the endpoint's completion, or the failure encoded as text
generate_task(prompt, outcome) ==
    IF outcome.kind = "response"
    THEN outcome.text
    ELSE <<"Error: Unable to connect to the model server or generate a response.\nDetails: ">>
         \o outcome.e

\* mutant: the first call is given the fix-up wording, with nothing to fix
FullPrompt_FixWording(prompt) ==
    <<"The following code was generated for the task: '">> \o prompt
    \o <<"'\n\nPrevious code:\n", "\n\nError or test failure:\n">>

\* full_prompt of the /generate route
FullPrompt(prompt) ==
    <<"Write a clean Python function for this task: ">> \o prompt
    \o <<"\n\nInclude comprehensive tests ... Put EVERYTHING in ONE code block. Include comprehensive test cases using pytest assertions.">>

\* the fixed parts of fix_prompt
FixHead == "The following code was generated for the task: '"
FixPreviousHeader == "'\n\nPrevious code:\n"
FixErrorHeader == "\n\nBut the tests failed with this error:\n"
FixTail == "\n\nPlease fix the code ... Fix the issue and put EVERYTHING in ONE code block."

\* mutant: the retry resends the task without the previous code
FixPrompt_NoPrevious(original_prompt, error_output, previous_code) ==
    <<FixHead>> \o original_prompt \o <<FixPreviousHeader>>
    \o <<FixErrorHeader>> \o error_output \o <<FixTail>>

\* fix_prompt of fix_failing_code
FixPrompt(original_prompt, error_output, previous_code) ==
    <<FixHead>> \o original_prompt
    \o <<FixPreviousHeader>> \o previous_code
    \o <<FixErrorHeader>> \o error_output
    \o <<FixTail>>

(***************************************************************************)
(* What the model endpoint can answer                                      *)
(***************************************************************************)
CorrectBody == "    return n % 2 == 0"
WrongBodies == {"    return n % 2 == 1"}

ProseReply == <<"I cannot write code for this task.">>

CodeReply(body) ==
    <<"Here is the function with its tests:", NL, FencePy,
      "def is_even(n):", NL, body, NLNL,
      "def test_is_even():", NL, "    assert is_even(2)", NL, FencePlain>>

Replies == {ProseReply} \cup {CodeReply(b) : b \in {CorrectBody} \cup WrongBodies}

ModelOutcomes ==
    {[kind |-> "response", text |-> x, e |-> <<>>] : x \in Replies}
    \cup {[kind |-> "exception", text |-> <<>>, e |-> TransportError]}

\* the outcomes explored when requests may share a session identifier: the
\* endpoint is reachable and answers with a code block
ModelOutcomesOf(shared) ==
    IF shared
    THEN {o \in ModelOutcomes : o.kind = "response" /\ o.text # ProseReply}
    ELSE ModelOutcomes

(***************************************************************************)
(* The session files                                                       *)
(***************************************************************************)
Sids == {"default", "a"}
\* the request body may carry no session_id key
NoKey == "<no key>"
Tasks == {<<"check if a number is even">>}
RequestBodies ==
    {[prompt |-> p, session_id |-> s] : p \in Tasks \cup {<<>>}, s \in Sids \cup {NoKey}}

\* the bodies explored when requests may share a session identifier: a
\* prompt and no session_id key, so that every request uses 'default'
RequestBodiesOf(shared) ==
    IF shared
    THEN {b \in RequestBodies : b.session_id = NoKey /\ b.prompt # <<>>}
    ELSE RequestBodies

\* mutant: the implementation file is not scoped by the session identifier
FuncFile_Unscoped(session_id) == "generated_code_" \o "default" \o ".py"

\* func_file and test_file of save_code_and_tests, run_tests, cleanup_session_files
FuncFile(session_id) == "generated_code_" \o session_id \o ".py"
TestFile(session_id) == "test_generated_code_" \o session_id \o ".py"
Files == {FuncFile(s) : s \in Sids} \cup {TestFile(s) : s \in Sids}

NoFile == [exists |-> FALSE, content |-> <<>>]
FileOf(text) == [exists |-> TRUE, content |-> text]

\* mutant: the file is opened in append mode
WriteText_Append(old, text) == FileOf(old.content \o text)

\* with open(path, "w") as f: f.write(text)  -- the old content is truncated
WriteText(old, text) == FileOf(text)

\* open(func_file, "w").write(func_code + "\n")
FuncFileText(func_code) == func_code \o <<NL>>
\* open(test_file, "w").write("import pytest\nfrom generated_code_<sid> import *\n\n<test_code>\n")
TestFileText(session_id, test_code) ==
    <<"import pytest\nfrom generated_code_" \o session_id \o " import *\n\n">>
    \o test_code \o <<NL>>

(***************************************************************************)
(* The test runner: pytest <test_file> -v --maxfail=1 --disable-warnings   *)
(* The verdict is a function of the two files the runner finds.            *)
(***************************************************************************)
IsWrongBody(tok) == tok \in WrongBodies

PytestRun(test, impl) ==
    IF ~test.exists
    THEN [returncode |-> 4, stdout |-> <<"no tests ran">>,
          stderr |-> <<"ERROR: file or directory not found">>]
    ELSE IF ~impl.exists
    THEN [returncode |-> 2, stdout |-> <<"ERROR collecting: ModuleNotFoundError">>,
          stderr |-> <<>>]
    ELSE IF Contains(impl.content, <<CorrectBody>>)
    THEN [returncode |-> 0, stdout |-> <<"1 passed">>, stderr |-> <<>>]
    ELSE [returncode |-> 1,
          stdout |-> <<"FAILED test_is_even - AssertionError:">>
                     \o SelectSeq(impl.content, IsWrongBody),
          stderr |-> <<>>]

\* mutant: exit status 5 (no test collected) counts as a pass
RunTestsResult_NoTestsPass(result) ==
    IF result.returncode \in {0, 5}
    THEN [passed |-> TRUE, output |-> result.stdout]
    ELSE [passed |-> FALSE, output |-> result.stdout \o <<NL>> \o result.stderr]

\* the return statement of run_tests
RunTestsResult(result) ==
    IF result.returncode = 0
    THEN [passed |-> TRUE, output |-> result.stdout]
    ELSE [passed |-> FALSE, output |-> result.stdout \o <<NL>> \o result.stderr]

(***************************************************************************)
(* One /generate request: the locals of generate(), the position in its    *)
(* code (pc) and the response; the fields after "response" are history     *)
(* kept for the properties and are never read by the actions' guards.      *)
(***************************************************************************)
\* a local that has not been assigned yet
Unbound == <<"<unbound local>">>

NoResponse ==
    [status |-> 0, keys |-> {}, success |-> FALSE, attempts |-> <<>>,
     error |-> <<>>, final_func_code |-> <<>>, final_test_code |-> <<>>,
     test_output |-> <<>>, exception |-> ""]

IdleRequest ==
    [pc |-> "idle", rid |-> 0, session_id |-> "default", prompt |-> <<>>,
     attempt |-> 0, attempts |-> <<>>, last_error |-> Unbound,
     previous_code |-> <<>>, model_prompt |-> <<>>, result |-> <<>>,
     func_code |-> <<>>, test_code |-> <<>>, collected |-> NoFile,
     test_output |-> <<>>, response |-> NoResponse,
     calls |-> <<>>, writes |-> 0, runs |-> 0, passed |-> FALSE,
     overlap |-> FALSE, concurrent |-> {}, touched |-> {},
     script |-> <<>>, disk0 |-> <<NoFile, NoFile>>]

InFlight(r) == r.pc \notin {"idle", "returned", "raised"}

\* mutant: a request without a session_id key gets an identifier of its own
SessionIdOf_NoDefault(data) ==
    IF data.session_id = NoKey THEN "a" ELSE data.session_id

\* data.get('session_id', 'default')
SessionIdOf(data) ==
    IF data.session_id = NoKey THEN "default" ELSE data.session_id

\* return jsonify({'error': 'No prompt provided'}), 400
NoPromptResponse ==
    [NoResponse EXCEPT !.status = 400, !.keys = {"error"},
                       !.error = <<"No prompt provided">>]

\* return jsonify({'success': True, 'attempts': ..., ...})
SuccessResponse(r) ==
    [NoResponse EXCEPT
        !.status = 200,
        !.keys = {"success", "attempts", "final_func_code", "final_test_code",
                  "test_output"},
        !.success = TRUE, !.attempts = r.attempts,
        !.final_func_code = r.func_code, !.final_test_code = r.test_code,
        !.test_output = r.test_output]

\* mutant: the exhausted request is answered with an error status
FailureResponse_ErrorStatus(r) ==
    [NoResponse EXCEPT
        !.status = 500, !.keys = {"success", "attempts", "error"},
        !.success = FALSE, !.attempts = r.attempts,
        !.error = <<"Failed after ", "max_retries", " attempts">>]

\* return jsonify({'success': False, 'attempts': ..., 'error': ...})
FailureResponse(r) ==
    [NoResponse EXCEPT
        !.status = 200, !.keys = {"success", "attempts", "error"},
        !.success = FALSE, !.attempts = r.attempts,
        !.error = <<"Failed after ", "max_retries", " attempts">>]

\* an exception that leaves generate(): the framework answers 500
Raise(r, exception) ==
    [r EXCEPT !.pc = "raised",
              !.response = [NoResponse EXCEPT !.status = 500,
                                              !.exception = exception]]

\* attempt_data as built after save_code_and_tests
AttemptData(r, success, func_code, test_code) ==
    [attempt |-> r.attempt + 1, ai_response |-> r.result, success |-> FALSE,
     func_code |-> func_code, test_code |-> test_code,
     test_output |-> <<>>, error |-> <<>>]

\* mutant: the history keeps the latest record only
EndOfCycle_KeepLast(r, attempt_data) ==
    [r EXCEPT !.attempts = <<attempt_data>>,
              !.attempt = @ + 1,
              !.pc = IF r.attempt + 1 < max_retries THEN "exists" ELSE "clean_func"]

\* mutant: a failed cycle ends the loop
EndOfCycle_GiveUp(r, attempt_data) ==
    [r EXCEPT !.attempts = Append(@, attempt_data),
              !.attempt = @ + 1,
              !.pc = "clean_func"]

\* attempts.append(attempt_data) at the end of the loop body, then the next
\* iteration of  for attempt in range(max_retries)  or the code after the loop
EndOfCycle(r, attempt_data) ==
    [r EXCEPT !.attempts = Append(@, attempt_data),
              !.attempt = @ + 1,
              !.pc = IF r.attempt + 1 < max_retries THEN "exists" ELSE "clean_func"]

\* mutant: a parse failure skips the rest of the loop body, append included
ParseFailed_NoAppend(r) ==
    [r EXCEPT !.last_error = <<"Failed to parse code blocks">>,
              !.func_code = <<>>, !.test_code = <<>>,
              !.attempt = @ + 1,
              !.pc = IF r.attempt + 1 < max_retries THEN "exists" ELSE "clean_func"]

\* what the loop stores in last_error after a failed extraction
ParseErrorContext == <<"Failed to parse code blocks">>
\* what the cycle record stores in 'error' after a failed extraction
ParseErrorRecorded == <<"Failed to parse code blocks", " from AI response">>

\* mutant: the unparsable reply itself becomes the error context
ParseFailed_CarryReply(r) ==
    EndOfCycle(
        [r EXCEPT !.last_error = r.result,
                  !.func_code = <<>>, !.test_code = <<>>],
        [AttemptData(r, FALSE, <<>>, <<>>) EXCEPT !.error = ParseErrorRecorded])

\* mutant: after a failed extraction the test runner is started all the same
ParseFailed_RunAnyway(r) ==
    [r EXCEPT !.last_error = ParseErrorContext,
              !.func_code = <<>>, !.test_code = <<>>,
              !.pc = "run"]

\* the else branch of  if success:  (extraction failed)
ParseFailed(r) ==
    EndOfCycle(
        [r EXCEPT !.last_error = ParseErrorContext,
                  !.func_code = <<>>, !.test_code = <<>>],
        [AttemptData(r, FALSE, <<>>, <<>>) EXCEPT !.error = ParseErrorRecorded])

\* mutant: a passing cycle is recorded but the loop goes on
TestsPassed_Continue(r, test_output) ==
    EndOfCycle(
        [r EXCEPT !.test_output = test_output],
        [AttemptData(r, TRUE, r.func_code, r.test_code) EXCEPT
            !.test_output = test_output, !.success = TRUE])

\* the branch  if test_success:  append, then clean up and return
TestsPassed(r, test_output) ==
    [r EXCEPT !.attempts =
                  Append(@, [AttemptData(r, TRUE, r.func_code, r.test_code) EXCEPT
                                !.test_output = test_output, !.success = TRUE]),
              !.test_output = test_output,
              !.passed = TRUE,
              !.pc = "clean_func"]

\* mutant: a failed test run is recorded without its error text
TestsFailed_NoError(r, test_output) ==
    EndOfCycle(
        [r EXCEPT !.last_error = test_output, !.test_output = test_output],
        [AttemptData(r, TRUE, r.func_code, r.test_code) EXCEPT
            !.test_output = test_output])

\* the branch  else: last_error = test_output
TestsFailed(r, test_output) ==
    EndOfCycle(
        [r EXCEPT !.last_error = test_output, !.test_output = test_output],
        [AttemptData(r, TRUE, r.func_code, r.test_code) EXCEPT
            !.test_output = test_output, !.error = test_output])

\* mutant: files_to_clean lists the implementation file only
RemoveIfExists_FuncOnly(d, file_path) ==
    IF d[file_path].exists /\ file_path \in {FuncFile(x) : x \in Sids}
    THEN [d EXCEPT ![file_path] = NoFile] ELSE d

\* os.path.exists(p) followed by os.remove(p), failures swallowed
RemoveIfExists(d, file_path) ==
    IF d[file_path].exists THEN [d EXCEPT ![file_path] = NoFile] ELSE d

(***************************************************************************)
(* Inputs of the pure functions: replies handed to save_code_and_tests and *)
(* completed pytest processes handed to the return of run_tests.           *)
(***************************************************************************)
\* most code blocks in one reply, most definitions in one reply
MaxBlocks == 2
MaxDefs == 3
\* pytest exits with a status from 0 to 5
MaxExitStatus == 5

Prose == "Here is the code."

\* definitions as a model writes them, each ending with a blank line
DefIsEven == <<"def is_even(n):", NL, CorrectBody, NLNL>>
DefIsOdd == <<"def is_odd(n) -> bool:", NL, "    return n % 2 == 1", NLNL>>
DefScale ==
    <<"def scale(k):", NL, Indent, "def inner(v):", NL,
      "        return v * k", NL, "    return inner", NLNL>>
DefTestIsEven == <<"def test_is_even():", NL, "    assert is_even(2)", NLNL>>
DefTestHelper ==
    <<"def test_helper():", NL, Indent, "def helper(x):", NL,
      "        return x", NL, "    assert is_even(helper(2))", NLNL>>

Definitions == {DefIsEven, DefIsOdd, DefScale, DefTestIsEven, DefTestHelper}

\* the opening and closing texts of the two block conventions
BlockOpens == [fenced |-> {<<FencePy>>, <<FencePlain>>}, tagged |-> {<<TagOpen, NL>>}]
BlockCloses == [fenced |-> {<<FencePlain>>, <<FenceBare>>}, tagged |-> {<<TagClose, NL>>}]

\* no reply has been handed to save_code_and_tests yet
NotExtracted == [success |-> FALSE, func_code |-> <<"<not run>">>, test_code |-> <<>>]

\* a reply under construction: its text, the block that is open, the number
\* of blocks and definitions written, and the extractor's result
NoReply ==
    [response |-> <<>>, open |-> "none", blocks |-> 0, defs |-> 0,
     ran |-> FALSE, result |-> NotExtracted]

\* no pytest process has completed yet
NoRun == [ran |-> FALSE, result |-> <<>>, web |-> <<>>, cli |-> <<>>]

\* what a pytest process can print
Stdouts == {<<>>, <<"1 passed">>, <<"FAILED test_is_even - AssertionError:">>}
Stderrs == {<<>>, <<"ERROR: file or directory not found">>}

\* None, the output of a passing run in app.py
None == <<"None">>

\* the return statement of run_tests in app.py
RunTestsResultCli(result) ==
    IF result.returncode = 0
    THEN [passed |-> TRUE, output |-> None]
    ELSE [passed |-> FALSE, output |-> result.stderr]

(***************************************************************************)
(* The other JSON routes: /analyze_file, /generate_tests_for_file and      *)
(* /download_tests. A response is its HTTP status, the kind of its body    *)
(* and, for a JSON body, the keys of the object and the success flag.      *)
(***************************************************************************)
\* return jsonify(body), status
JsonResponse(status, keys, success) ==
    [status |-> status, body |-> "json", keys |-> keys, success |-> success]
\* return send_file(path, as_attachment=True, ...)
FileResponse == [status |-> 200, body |-> "file", keys |-> {}, success |-> FALSE]
\* an exception left the handler: the framework's Internal Server Error page
ServerErrorPage == [status |-> 500, body |-> "html", keys |-> {}, success |-> FALSE]

NothingServed == [route |-> "none", response |-> [status |-> 0, body |-> "", keys |-> {}, success |-> FALSE]]

\* the upload of /analyze_file: whether the form has a 'file' part, its
\* name, whether its bytes are UTF-8, whether a quality tool raises
Uploads ==
    [has_file : BOOLEAN, filename : {"", "notes.txt", "calc.py"},
     utf8 : BOOLEAN, checks_raise : BOOLEAN]

\* file contents sent to /generate_tests_for_file and /download_tests
NoContent == <<>>
ParsableContent == <<"def is_even(n):", NL, "    return n % 2 == 0", NL>>
UnparsableContent == <<"def is_even(n:", NL>>
FileContents == {NoContent, ParsableContent, UnparsableContent}

\* analyze_python_file: the analysis, or {'error': ...} when ast.parse raises
analyze_python_file(file_content) ==
    IF file_content = UnparsableContent
    THEN {"error"}
    ELSE {"functions", "classes", "imports", "total_functions",
          "total_test_functions", "total_classes"}

\* the handler of /analyze_file
analyze_file(upload) ==
    IF ~upload.has_file THEN JsonResponse(400, {"error"}, FALSE)
    ELSE IF upload.filename = "" THEN JsonResponse(400, {"error"}, FALSE)
    ELSE IF upload.filename \notin {"calc.py"} THEN JsonResponse(400, {"error"}, FALSE)
    ELSE IF ~upload.utf8 THEN ServerErrorPage
    ELSE IF upload.checks_raise THEN JsonResponse(500, {"error"}, FALSE)
    ELSE JsonResponse(200, {"success", "filename", "analysis", "quality_checks",
                            "file_content"}, TRUE)

\* the handler of /generate_tests_for_file
generate_tests_for_file(file_content) ==
    IF file_content = NoContent THEN JsonResponse(400, {"error"}, FALSE)
    ELSE IF "error" \in analyze_python_file(file_content)
    THEN JsonResponse(400, {"error"}, FALSE)
    ELSE JsonResponse(200, {"success", "individual_tests", "combined_tests",
                            "test_filename"}, TRUE)

\* the handler of /download_tests
download_tests(test_code) ==
    IF test_code = NoContent THEN JsonResponse(400, {"error"}, FALSE)
    ELSE FileResponse

(***************************************************************************)
(* The command-line orchestrator of backend/app.py: run_with_retry and the *)
(* module-level code that calls it. Its two files have fixed names and are *)
(* never deleted, so a run may find the files of an earlier run.           *)
(***************************************************************************)
\* fix_prompt of fix_failing_code in app.py
CliFixPrompt(original_prompt, error_output, previous_code) ==
    <<"The following code was generated for the task: '">> \o original_prompt
    \o <<"'\n\nPrevious code:\n">> \o previous_code
    \o <<"\n\nBut the tests failed with this error:\n">> \o error_output
    \o <<"\n\nPlease fix the code ... put EVERYTHING in ONE code block.">>

\* the text written to test_generated_code.py
CliTestFileText(test_code) ==
    <<"import pytest\nfrom generated_code import *\n\n">> \o test_code \o <<NL>>

\* the program has not been started: the working directory may hold
\* generated_code.py and test_generated_code.py of an earlier run
NoCliRun ==
    [pc |-> "idle", prompt |-> <<>>, attempt |-> 0,
     global_last_error |-> Unbound, last_error |-> Unbound,
     func_file |-> NoFile, test_file |-> NoFile,
     model_prompt |-> <<>>, returned |-> "", exception |-> "",
     calls |-> <<>>, replies |-> <<>>, outcomes |-> <<>>]

\* what an earlier run may have left in generated_code.py
EarlierFiles ==
    {NoFile,
     FileOf(<<"def is_even(n):", NL, "    return n % 2 == 1", NL>>),
     FileOf(<<"def is_even(n):", NL, "    return n % 2 == 0", NL>>)}

\* pytest reports failing tests on its standard output; its standard error
\* is empty or holds what else the process printed
CliStderrs == {<<>>, <<"ImportWarning: deprecated plugin">>}

\* the end of one iteration of  for attempt in range(max_retries)
CliEndOfAttempt(c) ==
    [c EXCEPT !.attempt = @ + 1,
              !.pc = IF c.attempt + 1 < max_retries THEN "prompt" ELSE "done",
              !.returned = IF c.attempt + 1 < max_retries THEN @ ELSE "False"]

\* an exception leaves run_with_retry and ends the program
CliRaise(c, exception) == [c EXCEPT !.pc = "raised", !.exception = exception]

(***************************************************************************)
(* Initial state: the server has started, no request has arrived, and the  *)
(* working directory holds no session file.                                *)
(***************************************************************************)
InitCommon ==
    /\ disk = [f \in Files |-> NoFile]
    /\ owner = [f \in Files |-> 0]
    /\ req = [t \in Requests |-> IdleRequest]
    /\ started = 0
    /\ ex = NoReply
    /\ rt = NoRun
    /\ served = NothingServed
    /\ cli = NoCliRun

\* requests in flight at the same time carry distinct session identifiers
Init == InitCommon /\ allowShared = FALSE

\* any two requests may carry the same session identifier
InitShared == InitCommon /\ allowShared = TRUE

(***************************************************************************)
(* Actions                                                                 *)
(***************************************************************************)
\* lines 324-361: the request arrives; an empty prompt is answered 400,
\* otherwise the first cycle is about to call the model with full_prompt
Start(t) ==
    /\ req[t].pc = "idle"
    /\ started = t - 1
    /\ \E data \in RequestBodiesOf(allowShared) :
        LET sid == SessionIdOf(data)
            others == {u \in Requests \ {t} : InFlight(req[u])}
            same == {u \in others : req[u].session_id = sid}
            new == IF data.prompt = <<>>
                   THEN [IdleRequest EXCEPT !.pc = "returned",
                                            !.rid = started + 1,
                                            !.session_id = sid,
                                            !.response = NoPromptResponse]
                   ELSE [IdleRequest EXCEPT
                            !.pc = "call", !.rid = started + 1,
                            !.session_id = sid, !.prompt = data.prompt,
                            !.model_prompt = FullPrompt(data.prompt),
                            !.overlap = (same # {}),
                            !.concurrent = {req[u].rid : u \in others},
                            !.disk0 = <<disk[FuncFile(sid)], disk[TestFile(sid)]>>]
        IN  /\ allowShared \/ data.prompt = <<>> \/ same = {}
            /\ req' = [u \in Requests |->
                        IF u = t THEN new
                        ELSE IF data.prompt # <<>> /\ u \in others
                        THEN [req[u] EXCEPT
                                !.concurrent = @ \cup {started + 1},
                                !.overlap = @ \/ (u \in same)]
                        ELSE req[u]]
    /\ started' = started + 1
    /\ UNCHANGED <<disk, owner, allowShared>>

\* line 365: os.path.exists(func_file) on a retry
ExistsCheck(t) ==
    LET r == req[t] IN
    /\ r.pc = "exists"
    /\ req' = [req EXCEPT ![t] =
                IF disk[FuncFile(r.session_id)].exists
                THEN [r EXCEPT !.pc = "read"]
                ELSE [r EXCEPT !.pc = "call",
                               !.model_prompt = FullPrompt(r.prompt)]]
    /\ UNCHANGED <<disk, owner, started, allowShared>>

\* lines 366-368: read the previous code and build the fix-up prompt
ReadPrevious(t) ==
    LET r == req[t]
        f == FuncFile(r.session_id)
    IN
    /\ r.pc = "read"
    /\ req' = [req EXCEPT ![t] =
                IF ~disk[f].exists THEN Raise(r, "FileNotFoundError")
                ELSE IF r.last_error = Unbound THEN Raise(r, "UnboundLocalError")
                ELSE [r EXCEPT !.pc = "call",
                               !.previous_code = disk[f].content,
                               !.touched = @ \cup {owner[f]},
                               !.model_prompt =
                                   FixPrompt(r.prompt, r.last_error, disk[f].content)]]
    /\ UNCHANGED <<disk, owner, started, allowShared>>

\* lines 361/368/370 and 373, 422-459: the model call, then the extraction
\* part of save_code_and_tests
CallModel(t) ==
    LET r == req[t] IN
    /\ r.pc = "call"
    /\ \E outcome \in ModelOutcomesOf(allowShared) :
        LET result == generate_task(r.model_prompt, outcome)
            ext == Extract(result)
            called == [r EXCEPT !.result = result,
                                !.calls = Append(@, r.model_prompt),
                                !.script = Append(@, [outcome |-> outcome,
                                                      available |-> TRUE])]
        IN  req' = [req EXCEPT ![t] =
                      IF ext.success
                      THEN [called EXCEPT !.pc = "write_func",
                                          !.func_code = ext.func_code,
                                          !.test_code = ext.test_code]
                      ELSE ParseFailed(called)]
    /\ UNCHANGED <<disk, owner, started, allowShared>>

\* lines 465-466
WriteFunc(t) ==
    LET r == req[t] IN
    /\ r.pc = "write_func"
    /\ disk' = [disk EXCEPT ![FuncFile(r.session_id)] =
                    WriteText(@, FuncFileText(r.func_code))]
    /\ owner' = [owner EXCEPT ![FuncFile(r.session_id)] = r.rid]
    /\ req' = [req EXCEPT ![t] = [r EXCEPT !.pc = "write_test", !.writes = @ + 1]]
    /\ UNCHANGED <<started, allowShared>>

\* lines 469-472
WriteTest(t) ==
    LET r == req[t] IN
    /\ r.pc = "write_test"
    /\ disk' = [disk EXCEPT ![TestFile(r.session_id)] =
                    WriteText(@, TestFileText(r.session_id, r.test_code))]
    /\ owner' = [owner EXCEPT ![TestFile(r.session_id)] = r.rid]
    /\ req' = [req EXCEPT ![t] = [r EXCEPT !.pc = "run", !.writes = @ + 1]]
    /\ UNCHANGED <<started, allowShared>>

\* lines 475-480: subprocess.run starts pytest, which raises when the
\* executable is missing; pytest first collects the test file
LaunchPytest(t) ==
    LET r == req[t]
        f == TestFile(r.session_id)
    IN
    /\ r.pc = "run"
    /\ \E available \in BOOLEAN :
        req' = [req EXCEPT ![t] =
                  IF ~available
                  THEN Raise([r EXCEPT !.script[Len(r.script)].available = FALSE],
                             "FileNotFoundError")
                  ELSE [r EXCEPT !.pc = "import",
                                 !.collected = disk[f],
                                 !.runs = @ + 1,
                                 !.touched = IF disk[f].exists
                                             THEN @ \cup {owner[f]} ELSE @]]
    /\ UNCHANGED <<disk, owner, started, allowShared>>

\* pytest imports generated_code_<sid> and runs the tests; lines 482-485
\* and 387-411 then record the cycle
FinishPytest(t) ==
    LET r == req[t]
        f == FuncFile(r.session_id)
        out == RunTestsResult(PytestRun(r.collected, disk[f]))
        seen == [r EXCEPT !.touched = IF r.collected.exists /\ disk[f].exists
                                      THEN @ \cup {owner[f]} ELSE @,
                          !.collected = NoFile]
    IN
    /\ r.pc = "import"
    /\ req' = [req EXCEPT ![t] =
                IF out.passed THEN TestsPassed(seen, out.output)
                ELSE TestsFailed(seen, out.output)]
    /\ UNCHANGED <<disk, owner, started, allowShared>>

\* cleanup_session_files, first file
CleanFunc(t) ==
    LET r == req[t]
        f == FuncFile(r.session_id)
    IN
    /\ r.pc = "clean_func"
    /\ disk' = RemoveIfExists(disk, f)
    /\ owner' = [owner EXCEPT ![f] = IF disk'[f].exists THEN @ ELSE 0]
    /\ req' = [req EXCEPT ![t] =
                [r EXCEPT !.pc = "clean_test",
                          !.touched = IF disk[f].exists /\ ~disk'[f].exists
                                      THEN @ \cup {owner[f]} ELSE @]]
    /\ UNCHANGED <<started, allowShared>>

\* cleanup_session_files, second file, then the return of lines 397 or 416
CleanTest(t) ==
    LET r == req[t]
        f == TestFile(r.session_id)
    IN
    /\ r.pc = "clean_test"
    /\ disk' = RemoveIfExists(disk, f)
    /\ owner' = [owner EXCEPT ![f] = IF disk'[f].exists THEN @ ELSE 0]
    /\ req' = [req EXCEPT ![t] =
                [r EXCEPT !.pc = "returned",
                          !.touched = IF disk[f].exists /\ ~disk'[f].exists
                                      THEN @ \cup {owner[f]} ELSE @,
                          !.response = IF r.passed THEN SuccessResponse(r)
                                       ELSE FailureResponse(r)]]
    /\ UNCHANGED <<started, allowShared>>

Next ==
    /\ \E t \in Requests :
            \/ Start(t)
            \/ ExistsCheck(t)
            \/ ReadPrevious(t)
            \/ CallModel(t)
            \/ WriteFunc(t)
            \/ WriteTest(t)
            \/ LaunchPytest(t)
            \/ FinishPytest(t)
            \/ CleanFunc(t)
            \/ CleanTest(t)
    /\ UNCHANGED <<ex, rt, served, cli>>

Spec == Init /\ [][Next]_vars

SpecShared == InitShared /\ [][Next]_vars

\* a request that has arrived keeps running: its thread is scheduled, and
\* the calls it blocks on (model endpoint, pytest process) return
Progress(t) ==
    /\ \/ ExistsCheck(t)
       \/ ReadPrevious(t)
       \/ CallModel(t)
       \/ WriteFunc(t)
       \/ WriteTest(t)
       \/ LaunchPytest(t)
       \/ FinishPytest(t)
       \/ CleanFunc(t)
       \/ CleanTest(t)
    /\ UNCHANGED <<ex, rt, served, cli>>

SpecFair == Init /\ [][Next]_vars /\ \A t \in Requests : WF_vars(Progress(t))

(***************************************************************************)
(* The pure functions applied to bounded inputs: a reply is written piece  *)
(* by piece and handed to the extractor; a completed pytest process is     *)
(* handed to the return statements of run_tests.                           *)
(***************************************************************************)
\* text outside the blocks
WriteProse ==
    /\ ~ex.ran /\ ~rt.ran
    /\ ex.open = "none"
    /\ IF ex.response = <<>> THEN TRUE ELSE ex.response[Len(ex.response)] # Prose
    /\ ex' = [ex EXCEPT !.response = Append(@, Prose)]
    /\ UNCHANGED <<disk, owner, req, started, allowShared, rt, served, cli>>

\* a block of either convention begins
OpenBlock ==
    /\ ~ex.ran /\ ~rt.ran
    /\ ex.open = "none"
    /\ ex.blocks < MaxBlocks
    /\ \E kind \in {"fenced", "tagged"} : \E opening \in BlockOpens[kind] :
          ex' = [ex EXCEPT !.response = @ \o opening,
                           !.open = kind,
                           !.blocks = @ + 1]
    /\ UNCHANGED <<disk, owner, req, started, allowShared, rt, served, cli>>

\* a definition inside the open block
WriteDefinition ==
    /\ ~ex.ran /\ ~rt.ran
    /\ ex.open # "none"
    /\ ex.defs < MaxDefs
    /\ \E d \in Definitions :
          ex' = [ex EXCEPT !.response = @ \o d, !.defs = @ + 1]
    /\ UNCHANGED <<disk, owner, req, started, allowShared, rt, served, cli>>

\* the open block ends
CloseBlock ==
    /\ ~ex.ran /\ ~rt.ran
    /\ ex.open # "none"
    /\ \E closing \in BlockCloses[ex.open] :
          ex' = [ex EXCEPT !.response = @ \o closing, !.open = "none"]
    /\ UNCHANGED <<disk, owner, req, started, allowShared, rt, served, cli>>

\* save_code_and_tests(response, session_id) up to its file writes; a reply
\* cut off inside a block is a reply too
ExtractReply ==
    /\ ~ex.ran /\ ~rt.ran
    /\ ex' = [ex EXCEPT !.ran = TRUE, !.result = Extract(ex.response)]
    /\ UNCHANGED <<disk, owner, req, started, allowShared, rt, served, cli>>

\* subprocess.run has returned a completed process; both run_tests return
RunTests ==
    /\ ~rt.ran /\ ex = NoReply
    /\ \E returncode \in 0..MaxExitStatus : \E out \in Stdouts : \E err \in Stderrs :
          LET result == [returncode |-> returncode, stdout |-> out, stderr |-> err]
          IN  rt' = [ran |-> TRUE, result |-> result,
                     web |-> RunTestsResult(result),
                     cli |-> RunTestsResultCli(result)]
    /\ UNCHANGED <<disk, owner, req, started, allowShared, ex, served, cli>>

NextFunctions ==
    \/ WriteProse
    \/ OpenBlock
    \/ WriteDefinition
    \/ CloseBlock
    \/ ExtractReply
    \/ RunTests

SpecFunctions == Init /\ [][NextFunctions]_vars

(***************************************************************************)
(* All four routes: a behaviour serves /generate requests, or one request  *)
(* of another route (the other handlers share no file with /generate).     *)
(***************************************************************************)
AnalyzeFile ==
    /\ started = 0 /\ served.route = "none"
    /\ \E upload \in Uploads :
          served' = [route |-> "analyze_file", response |-> analyze_file(upload)]
    /\ UNCHANGED <<disk, owner, req, started, allowShared, ex, rt, cli>>

GenerateTestsForFile ==
    /\ started = 0 /\ served.route = "none"
    /\ \E file_content \in FileContents :
          served' = [route |-> "generate_tests_for_file",
                     response |-> generate_tests_for_file(file_content)]
    /\ UNCHANGED <<disk, owner, req, started, allowShared, ex, rt, cli>>

DownloadTests ==
    /\ started = 0 /\ served.route = "none"
    /\ \E test_code \in FileContents :
          served' = [route |-> "download_tests",
                     response |-> download_tests(test_code)]
    /\ UNCHANGED <<disk, owner, req, started, allowShared, ex, rt, cli>>

NextRoutes ==
    \/ Next /\ served.route = "none"
    \/ AnalyzeFile
    \/ GenerateTestsForFile
    \/ DownloadTests

SpecRoutes == Init /\ [][NextRoutes]_vars

(***************************************************************************)
(* One run of the command-line program                                     *)
(***************************************************************************)
\* lines 140-164: the prompt is read, last_error = None is assigned at
\* module level, run_with_retry is called; attempt 0 will use full_prompt
CliStart ==
    /\ cli.pc = "idle"
    /\ \E prompt \in Tasks : \E earlier \in EarlierFiles :
          cli' = [cli EXCEPT !.pc = "generate",
                             !.prompt = prompt,
                             !.global_last_error = None,
                             !.func_file = earlier,
                             !.test_file = IF earlier.exists
                                           THEN FileOf(CliTestFileText(<<"def test_is_even():">>))
                                           ELSE NoFile,
                             !.model_prompt = FullPrompt(prompt)]
    /\ UNCHANGED <<disk, owner, req, started, allowShared, ex, rt, served>>

\* lines 115-119 of a retry: open generated_code.py, then read last_error,
\* which the assignment of line 130 makes a local of run_with_retry
CliBuildFixPrompt ==
    /\ cli.pc = "prompt"
    /\ cli' = IF ~cli.func_file.exists
              THEN CliRaise(cli, "FileNotFoundError: generated_code.py")
              ELSE IF cli.last_error = Unbound
              THEN CliRaise(cli, "UnboundLocalError: last_error")
              ELSE [cli EXCEPT !.pc = "generate",
                               !.model_prompt =
                                   CliFixPrompt(cli.prompt, cli.last_error,
                                                cli.func_file.content)]
    /\ UNCHANGED <<disk, owner, req, started, allowShared, ex, rt, served>>

\* lines 114/119 and 124: the model call, then save_code_and_tests
CliGenerate ==
    /\ cli.pc = "generate"
    /\ \E outcome \in ModelOutcomes :
          LET result == generate_task(cli.model_prompt, outcome)
              extracted == Extract(result)
              called == [cli EXCEPT !.calls = Append(@, cli.model_prompt),
                                    !.replies = Append(@, result)]
          IN  cli' = IF extracted.success
                     THEN [called EXCEPT
                              !.pc = "run",
                              !.func_file = WriteText(@, FuncFileText(extracted.func_code)),
                              !.test_file = WriteText(@, CliTestFileText(extracted.test_code))]
                     ELSE CliEndOfAttempt(
                              [called EXCEPT !.outcomes = Append(@, "parse failure")])
    /\ UNCHANGED <<disk, owner, req, started, allowShared, ex, rt, served>>

\* lines 125-132: run_tests, then return True or keep the error output
CliRunTests ==
    /\ cli.pc = "run"
    /\ \E available \in BOOLEAN : \E err \in CliStderrs :
          LET result == PytestRun(cli.test_file, cli.func_file)
              out == RunTestsResultCli(
                         [result EXCEPT !.stderr = IF @ = <<>> THEN err ELSE @])
          IN  cli' = IF ~available
                     THEN CliRaise(cli, "FileNotFoundError: pytest")
                     ELSE IF out.passed
                     THEN [cli EXCEPT !.pc = "done", !.returned = "True",
                                      !.outcomes = Append(@, "passed")]
                     ELSE CliEndOfAttempt(
                              [cli EXCEPT !.last_error = out.output,
                                          !.outcomes = Append(@, "test failure")])
    /\ UNCHANGED <<disk, owner, req, started, allowShared, ex, rt, served>>

NextCli ==
    \/ CliStart
    \/ CliBuildFixPrompt
    \/ CliGenerate
    \/ CliRunTests

SpecCli == Init /\ [][NextCli]_vars

(***************************************************************************)
(* Vocabulary of the properties                                            *)
(***************************************************************************)
\* the request entered the retry loop (its prompt was not empty)
Entered(r) == r.rid # 0 /\ r.prompt # <<>>

\* the request has left generate(), by a return or by an exception
Finished(r) == r.pc \in {"returned", "raised"}

\* the reply of cycle k cannot be parsed
Unparsable(r, k) ==
    ~Extract(generate_task(r.calls[k], r.script[k].outcome)).success

\* the last recorded cycle passed its test run
LastCyclePassed(r) ==
    r.attempts # <<>> /\ r.attempts[Len(r.attempts)].success

SessionFilesAbsent(d, session_id) ==
    ~d[FuncFile(session_id)].exists /\ ~d[TestFile(session_id)].exists

(***************************************************************************)
(* C1: in one /generate request the number of model-client calls, made     *)
(* directly or through fix_failing_code, never exceeds 3.                  *)
(***************************************************************************)
C1_CallsBounded ==
    \A t \in Requests : Len(req[t].calls) <= 3

\* a request that used its whole budget, the retries through fix_failing_code
C1_Witness ==
    \E t \in Requests :
        /\ Len(req[t].calls) = 3
        /\ req[t].calls[2] # FullPrompt(req[t].prompt)
        /\ req[t].calls[3] # FullPrompt(req[t].prompt)

(***************************************************************************)
(* C2: when every reply of the model is unparsable, the request makes      *)
(* exactly 3 generation calls and returns success = false with exactly 3   *)
(* attempt records, each one failed.                                       *)
(***************************************************************************)
C2_AllUnparsableExhausts ==
    \A t \in Requests :
        LET r == req[t] IN
        (/\ Entered(r)
         /\ Finished(r)
         /\ \A k \in 1..Len(r.calls) : Unparsable(r, k))
        => /\ r.pc = "returned"
           /\ Len(r.calls) = 3
           /\ r.response.status = 200
           /\ "success" \in r.response.keys
           /\ r.response.success = FALSE
           /\ Len(r.response.attempts) = 3
           /\ \A k \in 1..3 : /\ r.response.attempts[k].attempt = k
                              /\ ~r.response.attempts[k].success

\* three unparsable replies, a transport failure and a prose reply among them
C2_Witness ==
    \E t \in Requests :
        LET r == req[t] IN
        /\ Entered(r) /\ r.pc = "returned"
        /\ Len(r.calls) = 3
        /\ \A k \in 1..3 : Unparsable(r, k)
        /\ \E k \in 1..3 : r.script[k].outcome.kind = "exception"
        /\ \E k \in 1..3 : r.script[k].outcome.kind = "response"

(***************************************************************************)
(* C3: once the test run of cycle k has passed, the request makes no more  *)
(* model call (hence no extraction), writes no file and runs no test; it   *)
(* only cleans up and returns success = true with exactly k records.       *)
(***************************************************************************)
C3_StopsAfterPass ==
    [][\A t \in Requests :
        LET r == req[t]
            k == Len(r.attempts)
        IN  LastCyclePassed(r) =>
              /\ req'[t].calls = r.calls
              /\ req'[t].writes = r.writes
              /\ req'[t].runs = r.runs
              /\ req'[t].attempts = r.attempts
              /\ r.attempts[k].attempt = k
              /\ Len(r.calls) = k
              /\ req'[t].pc \in {"clean_func", "clean_test", "returned"}
              /\ req'[t].pc = "returned" =>
                    /\ req'[t].response.status = 200
                    /\ req'[t].response.success = TRUE
                    /\ req'[t].response.attempts = r.attempts]_vars

\* a request that passed in its second cycle and has returned
C3_Witness ==
    \E t \in Requests :
        /\ req[t].pc = "returned"
        /\ req[t].response.success
        /\ Len(req[t].response.attempts) = 2
        /\ LastCyclePassed(req[t])

\* a request that passed in its first cycle and has returned
C3_WitnessFirst ==
    \E t \in Requests :
        /\ req[t].pc = "returned"
        /\ req[t].response.success
        /\ Len(req[t].response.attempts) = 1

C5_CleanupOnEveryExit ==
    [][\A t \in Requests :
        (/\ ~Finished(req[t])
         /\ Finished(req'[t])
         /\ Entered(req'[t]))
        => SessionFilesAbsent(disk', req'[t].session_id)]_vars

(***************************************************************************)
(* C6: a request that entered the loop never ends with an exception: it    *)
(* ends with a structured response (success flag and attempts), and every  *)
(* cycle that was started has its record, a failed one with its error.     *)
(***************************************************************************)
C6_NeverRaises ==
    \A t \in Requests :
        LET r == req[t] IN
        (Entered(r) /\ Finished(r))
        => /\ r.pc = "returned"
           /\ r.response.status = 200
           /\ {"success", "attempts"} \subseteq r.response.keys
           /\ Len(r.response.attempts) = Len(r.calls)
           /\ \A k \in 1..Len(r.response.attempts) :
                \/ r.response.attempts[k].success
                \/ r.response.attempts[k].error # <<>>

(***************************************************************************)
(* C7: when the test run of cycle k fails and k < 3, the prompt of cycle   *)
(* k+1 contains the task description, the implementation text extracted    *)
(* in cycle k and the runner output of cycle k; no exception pre-empts     *)
(* that call; and when cycle k+1 passes the response reports success with  *)
(* the records of both cycles, in order.                                   *)
(***************************************************************************)
TestRunFailed(rec) == ~rec.success /\ rec.func_code # <<>>

C7_RetryPromptCarriesFailure ==
    \A t \in Requests :
        LET r == req[t] IN
        /\ (r.pc = "raised" => Len(r.calls) = Len(r.attempts) + 1)
        /\ \A k \in 1..Len(r.attempts) :
            (TestRunFailed(r.attempts[k]) /\ k < 3) =>
              /\ r.attempts[k].test_output # <<>>
              /\ r.attempts[k].error = r.attempts[k].test_output
              /\ (Len(r.calls) >= k + 1 =>
                    /\ Contains(r.calls[k + 1], r.prompt)
                    /\ Contains(r.calls[k + 1], r.attempts[k].func_code)
                    /\ Contains(r.calls[k + 1], r.attempts[k].test_output))
              /\ (r.pc = "returned" /\ Len(r.attempts) = k + 1
                  /\ r.attempts[k + 1].success) =>
                    /\ r.response.success
                    /\ Len(r.response.attempts) = k + 1
                    /\ r.response.attempts[k] = r.attempts[k]
                    /\ r.response.attempts[k].attempt = k
                    /\ r.response.attempts[k + 1].attempt = k + 1
                    /\ r.response.attempts[k + 1].success

\* cycle 1 failed its tests, cycle 2 passed, the request has returned
C7_Witness ==
    \E t \in Requests :
        LET r == req[t] IN
        /\ r.pc = "returned" /\ r.response.success
        /\ Len(r.response.attempts) = 2
        /\ TestRunFailed(r.response.attempts[1])
        /\ Contains(r.calls[2], r.response.attempts[1].test_output)

(***************************************************************************)
(* C8: for every cycle k > 1 the prompt is built from the implementation   *)
(* text and the failure text of cycle k-1 only: it is either the original  *)
(* task prompt or the fix-up prompt over the file text of cycle k-1's      *)
(* implementation and cycle k-1's error; it never carries implementation   *)
(* text of an earlier cycle or of another request.                         *)
(***************************************************************************)
C8_OnlyPreviousCycleCarried ==
    \A t \in Requests :
        LET r == req[t] IN
        \A k \in 2..Len(r.calls) :
            \/ r.calls[k] = FullPrompt(r.prompt)
            \/ \E e \in {r.attempts[k - 1].error, ParseErrorContext} :
                 r.calls[k] = FixPrompt(r.prompt, e,
                                        FuncFileText(r.attempts[k - 1].func_code))

(***************************************************************************)
(* C9 as claimed: a transport failure in cycle k is returned as the reply  *)
(* text, recorded as a parse failure, and the prompt of cycle k+1 carries  *)
(* that transport-failure description as its error context.                *)
(***************************************************************************)
TransportFailedIn(r, k) == r.script[k].outcome.kind = "exception"
TransportText(r, k) == generate_task(r.calls[k], r.script[k].outcome)

RecordedAsParseFailure(r, k) ==
    /\ k <= Len(r.attempts)
    /\ r.attempts[k].ai_response = TransportText(r, k)
    /\ ~r.attempts[k].success
    /\ r.attempts[k].func_code = <<>>
    /\ r.attempts[k].test_code = <<>>
    /\ r.attempts[k].test_output = <<>>
    /\ r.attempts[k].error = ParseErrorRecorded

C9_TransportTextCarried ==
    \A t \in Requests :
        LET r == req[t] IN
        \A k \in 1..Len(r.calls) :
            TransportFailedIn(r, k) =>
              /\ RecordedAsParseFailure(r, k)
              /\ (Len(r.calls) >= k + 1 =>
                    Contains(r.calls[k + 1], TransportText(r, k)))

(***************************************************************************)
(* C9 as amended: a transport failure in cycle k is returned as the reply  *)
(* text and recorded as a parse failure; the prompt of cycle k+1 does not  *)
(* carry the transport-failure description: it is the original task        *)
(* prompt, or the fix-up prompt whose error context is the fixed text      *)
(* 'Failed to parse code blocks'.                                          *)
(***************************************************************************)
C9_GenericErrorCarried ==
    \A t \in Requests :
        LET r == req[t] IN
        \A k \in 1..Len(r.calls) :
            TransportFailedIn(r, k) =>
              /\ RecordedAsParseFailure(r, k)
              /\ (Len(r.calls) >= k + 1 =>
                    /\ ~Contains(r.calls[k + 1], r.script[k].outcome.e)
                    /\ \/ r.calls[k + 1] = FullPrompt(r.prompt)
                       \/ Contains(r.calls[k + 1],
                                   <<FixErrorHeader>> \o ParseErrorContext
                                   \o <<FixTail>>))

\* a transport failure followed by a fix-up prompt
C9_Witness ==
    \E t \in Requests :
        LET r == req[t] IN
        \E k \in 1..Len(r.calls) :
            /\ TransportFailedIn(r, k)
            /\ Len(r.calls) >= k + 1
            /\ r.calls[k + 1] # FullPrompt(r.prompt)

(***************************************************************************)
(* generate() run alone: the loop of lines 358-420 executed start to end   *)
(* on a private copy of the two session files, against the model outcomes  *)
(* and the runner availability listed in script.                           *)
(***************************************************************************)
SoloStart(func_file, test_file) ==
    [k |-> 1, func_file |-> func_file, test_file |-> test_file,
     attempts |-> <<>>, last_error |-> Unbound, calls |-> <<>>]

RECURSIVE SoloRun(_, _, _, _)
SoloRun(prompt, session_id, script, st) ==
    IF st.k > max_retries
    THEN [pc |-> "returned", calls |-> st.calls,
          response |-> FailureResponse([attempts |-> st.attempts])]
    ELSE IF st.k > Len(script)
    THEN [pc |-> "unfinished", calls |-> st.calls, response |-> NoResponse]
    ELSE
      LET model_prompt ==
              IF st.k > 1 /\ st.func_file.exists
              THEN FixPrompt(prompt, st.last_error, st.func_file.content)
              ELSE FullPrompt(prompt)
          result == generate_task(model_prompt, script[st.k].outcome)
          ext == Extract(result)
          attempt_data ==
              [attempt |-> st.k, ai_response |-> result, success |-> FALSE,
               func_code |-> ext.func_code, test_code |-> ext.test_code,
               test_output |-> <<>>, error |-> <<>>]
          calls == Append(st.calls, model_prompt)
          func_file == FileOf(FuncFileText(ext.func_code))
          test_file == FileOf(TestFileText(session_id, ext.test_code))
          out == RunTestsResult(PytestRun(test_file, func_file))
      IN  IF ~ext.success
          THEN SoloRun(prompt, session_id, script,
                       [st EXCEPT !.k = @ + 1, !.calls = calls,
                                  !.last_error = ParseErrorContext,
                                  !.attempts = Append(@,
                                      [attempt_data EXCEPT
                                          !.error = ParseErrorRecorded])])
          ELSE IF ~script[st.k].available
          THEN [pc |-> "raised", calls |-> calls,
                response |-> [NoResponse EXCEPT !.status = 500,
                                                !.exception = "FileNotFoundError"]]
          ELSE IF out.passed
          THEN [pc |-> "returned", calls |-> calls,
                response |->
                    SuccessResponse(
                        [attempts |-> Append(st.attempts,
                                         [attempt_data EXCEPT
                                             !.test_output = out.output,
                                             !.success = TRUE]),
                         func_code |-> ext.func_code,
                         test_code |-> ext.test_code,
                         test_output |-> out.output])]
          ELSE SoloRun(prompt, session_id, script,
                       [st EXCEPT !.k = @ + 1, !.calls = calls,
                                  !.func_file = func_file,
                                  !.test_file = test_file,
                                  !.last_error = out.output,
                                  !.attempts = Append(@,
                                      [attempt_data EXCEPT
                                          !.test_output = out.output,
                                          !.error = out.output])])

(***************************************************************************)
(* C10: requests that are in flight together with distinct session         *)
(* identifiers do not collide: a request never reads, executes or deletes  *)
(* a file written by a request it overlapped with (and, when its session   *)
(* had no file at its start, only files it wrote itself), and when it      *)
(* ends, its outcome, response, cycle history and prompts equal those of   *)
(* the same request run alone against the same model outcomes.             *)
(***************************************************************************)
C10_DistinctSessionsIsolated ==
    \A t \in Requests :
        LET r == req[t]
            solo == SoloRun(r.prompt, r.session_id, r.script,
                            SoloStart(r.disk0[1], r.disk0[2]))
        IN  /\ r.touched \cap r.concurrent = {}
            /\ r.disk0 = <<NoFile, NoFile>> => r.touched \subseteq {r.rid}
            /\ (Entered(r) /\ Finished(r)) =>
                  /\ solo.pc = r.pc
                  /\ solo.response = r.response
                  /\ solo.calls = r.calls

\* two requests that overlapped, both went through a retry over their own
\* files, and both have ended
C10_Witness ==
    \E t \in Requests : \E u \in Requests \ {t} :
        /\ u \in req[t].concurrent
        /\ req[t].session_id # req[u].session_id
        /\ req[t].pc = "returned" /\ req[u].pc = "returned"
        /\ req[t].response.success /\ Len(req[t].calls) >= 2
        /\ ~req[u].response.success /\ req[u].writes >= 2
        /\ req[t].rid \in req[t].touched
        /\ req[u].rid \in req[u].touched

(***************************************************************************)
(* C11: the attempts history is append-only and ordered.                   *)
(***************************************************************************)
\* a cycle is under way from the model call's return until its record is
\* appended; a runner that could not be started leaves it under way for ever
CycleUnderWay(r) ==
    \/ r.pc \in {"write_func", "write_test", "run", "import"}
    \/ /\ r.pc = "raised"
       /\ r.script # <<>>
       /\ ~r.script[Len(r.script)].available

\* cycles that ran to their end: generation calls made, less the one under way
CompletedCycles(r) == Len(r.calls) - (IF CycleUnderWay(r) THEN 1 ELSE 0)

\* C11: every step of a request leaves the records already in its attempts
\* history as they are and appends at most one record, whose attempt index
\* is its position; after every step the history holds one record per
\* completed cycle, the record at position i carrying attempt index i.
C11_AttemptsAppendOnly ==
    [][\A t \in Requests :
          LET before == req[t].attempts
              after == req'[t].attempts
          IN  /\ \/ req[t].pc = "idle"
                 \/ after = before
                 \/ /\ Len(after) = Len(before) + 1
                    /\ SubSeq(after, 1, Len(before)) = before
              /\ Len(after) = CompletedCycles(req'[t])
              /\ \A i \in 1..Len(after) : after[i].attempt = i]_vars

\* a request that ended with three records in its history, the first from a
\* failed extraction, the second from a failed test run
C11_Witness ==
    \E t \in Requests :
        /\ req[t].pc = "returned"
        /\ Len(req[t].attempts) = max_retries
        /\ req[t].attempts[1].error = ParseErrorRecorded
        /\ TestRunFailed(req[t].attempts[2])

(***************************************************************************)
(* C12: once save_code_and_tests has written both files, and until the     *)
(* test run has read them, the two session files hold exactly the texts    *)
(* built from the session identifier, the implementation text and the      *)
(* test text of this cycle, whatever the files held before: the write      *)
(* replaces the content, so persisting the same texts again gives the      *)
(* same files.                                                             *)
(***************************************************************************)
C12_PersistOverwrites ==
    \A t \in Requests :
        LET r == req[t] IN
        r.pc \in {"run", "import"} =>
            /\ disk[FuncFile(r.session_id)] =
                   [exists |-> TRUE, content |-> r.func_code \o <<NL>>]
            /\ disk[TestFile(r.session_id)] =
                   [exists |-> TRUE,
                    content |-> <<"import pytest\nfrom generated_code_"
                                  \o r.session_id \o " import *\n\n">>
                                \o r.test_code \o <<NL>>]

\* the second persist of a request, with the texts of its first persist,
\* over the files the first persist left
C12_Witness ==
    \E t \in Requests :
        LET r == req[t] IN
        /\ r.pc = "run"
        /\ r.writes = 4
        /\ Len(r.attempts) = 1
        /\ r.attempts[1].func_code = r.func_code
        /\ r.attempts[1].test_code = r.test_code

(***************************************************************************)
(* Vocabulary of the extractor's properties                                *)
(***************************************************************************)
\* the reply holds an opening fence with a fence after it, or an opening
\* tag with a closing tag after it
HasBlock(s) ==
    \E i \in 1..Len(s) : \E j \in (i + 1)..Len(s) :
        \/ s[i] \in {FencePy, FencePlain} /\ s[j] \in {FencePy, FencePlain, FenceBare}
        \/ s[i] = TagOpen /\ s[j] = TagClose

\* the headers of function definitions, by the name they define
NonTestHeaders ==
    {"def is_even(n):", "def is_odd(n) -> bool:", "def scale(k):",
     "def inner(v):", "def helper(x):"}
TestHeaders == {"def test_is_even():", "def test_helper():"}

\* some collected block holds a token of the class
Collected(s, class) ==
    LET blocks == CodeBlocks(s)
    IN  \E k \in 1..Len(blocks) : \E i \in 1..Len(blocks[k]) :
            blocks[k][i] \in class

ExtractionFailed == [success |-> FALSE, func_code |-> <<>>, test_code |-> <<>>]

(***************************************************************************)
(* C13: extraction fails, with success = false and both texts empty, when  *)
(* the reply holds no fenced and no tagged block, when the collected       *)
(* blocks hold no definition whose name does not begin with test_, and     *)
(* when they hold no definition whose name begins with test_.              *)
(***************************************************************************)
C13_ExtractionFails ==
    ex.ran =>
        ((\/ ~HasBlock(ex.response)
          \/ ~Collected(ex.response, NonTestHeaders)
          \/ ~Collected(ex.response, TestHeaders))
         => ex.result = ExtractionFailed)

\* a reply with prose and a fenced block that holds a test and nothing else
C13_Witness ==
    /\ ex.ran
    /\ Collected(ex.response, TestHeaders)
    /\ ~Collected(ex.response, NonTestHeaders)
    /\ Prose = ex.response[1]
    /\ ex.result = ExtractionFailed

(***************************************************************************)
(* C14: for every reply with at least one fenced block that holds a        *)
(* definition whose name does not begin with test_ and a definition whose  *)
(* name begins with test_, extraction succeeds and both groups are         *)
(* non-empty.                                                              *)
(***************************************************************************)
\* some fenced block of the reply holds a header of each class
FencedBlockWithBoth(s) ==
    LET blocks == FencedBlocks(s, 1)
    IN  \E k \in 1..Len(blocks) :
            /\ \E i \in 1..Len(blocks[k]) : blocks[k][i] \in NonTestHeaders
            /\ \E i \in 1..Len(blocks[k]) : blocks[k][i] \in TestHeaders

C14_BlockWithBothSucceeds ==
    (ex.ran /\ FencedBlockWithBoth(ex.response)) =>
        /\ ex.result.success
        /\ ex.result.func_code # <<>>
        /\ ex.result.test_code # <<>>

(***************************************************************************)
(* Top-level definitions of the combined buffer                            *)
(***************************************************************************)
\* combined_code: the collected blocks joined by a blank line
Buffer(s) == Join(CodeBlocks(s), <<NLNL>>)

IsHeader(tok) == tok \in NonTestHeaders \cup TestHeaders

\* a header at column zero: nothing but a line break stands before it
TopLevelAt(b, i) == IsHeader(b[i]) /\ (i = 1 \/ b[i - 1] # Indent)
\* a header inside a body: indentation stands before it
NestedAt(b, i) == IsHeader(b[i]) /\ i > 1 /\ b[i - 1] = Indent

\* position of the first column-zero header at or after j, Len(b) + 1 if none
RECURSIVE NextTopLevel(_, _)
NextTopLevel(b, j) ==
    IF j > Len(b) THEN Len(b) + 1
    ELSE IF TopLevelAt(b, j) THEN j
    ELSE NextTopLevel(b, j + 1)

\* the definition that starts at i runs up to the next column-zero header
DefinitionText(b, i) == SubSeq(b, i, NextTopLevel(b, i + 1) - 1)

Occurs(tok, text) == \E i \in 1..Len(text) : text[i] = tok

(***************************************************************************)
(* C15: on a successful extraction, a top-level definition with a nested   *)
(* def in its body is kept whole, up to the next column-zero definition,   *)
(* in the group of its own name, and the nested def does not appear in     *)
(* the other group.                                                        *)
(***************************************************************************)
C15_NestedDefStaysInside ==
    (ex.ran /\ ex.result.success) =>
        LET b == Buffer(ex.response) IN
        \A i \in 1..Len(b) :
            TopLevelAt(b, i) =>
                LET last == NextTopLevel(b, i + 1) - 1
                    own == IF b[i] \in TestHeaders THEN ex.result.test_code
                           ELSE ex.result.func_code
                    other == IF b[i] \in TestHeaders THEN ex.result.func_code
                             ELSE ex.result.test_code
                IN  \A j \in (i + 1)..last :
                        NestedAt(b, j) =>
                            /\ Contains(own, Strip(DefinitionText(b, i)))
                            /\ ~Occurs(b[j], other)

\* the headers of the column-zero definitions of the buffer, in its order
RECURSIVE TopHeadsFrom(_, _)
TopHeadsFrom(b, i) ==
    IF i > Len(b) THEN <<>>
    ELSE IF TopLevelAt(b, i) THEN <<b[i]>> \o TopHeadsFrom(b, i + 1)
    ELSE TopHeadsFrom(b, i + 1)

IsTestHeader(tok) == tok \in TestHeaders
IsNonTestHeader(tok) == tok \in NonTestHeaders

(***************************************************************************)
(* C16: on a successful extraction the top-level definitions of the        *)
(* combined buffer (fenced blocks first, then tagged blocks) are split in  *)
(* two: the implementation group holds exactly those whose name does not   *)
(* begin with test_, the test group exactly those whose name does, each    *)
(* group in the order of the buffer.                                       *)
(***************************************************************************)
C16_GroupsPartitionTopLevel ==
    (ex.ran /\ ex.result.success) =>
        LET heads == TopHeadsFrom(Buffer(ex.response), 1)
            IsTop(tok) == Occurs(tok, heads)
        IN  /\ SelectSeq(ex.result.func_code, IsTop) = SelectSeq(heads, IsNonTestHeader)
            /\ SelectSeq(ex.result.test_code, IsTop) = SelectSeq(heads, IsTestHeader)

(***************************************************************************)
(* C17: the first generation call of every request is given the original   *)
(* task prompt, never the fix-up prompt; the fix-up prompt is sent only in *)
(* cycles whose attempt index is greater than 1.                           *)
(***************************************************************************)
\* the prompt is the one fix_failing_code builds
IsFixUpPrompt(p) ==
    p # <<>> /\ p[1] = "The following code was generated for the task: '"

\* the prompt is full_prompt over the task description
IsTaskPrompt(p, prompt) ==
    /\ p # <<>>
    /\ p[1] = "Write a clean Python function for this task: "
    /\ SubSeq(p, 2, Len(prompt) + 1) = prompt

C17_FirstCallOriginal ==
    \A t \in Requests :
        LET r == req[t] IN
        /\ (r.pc = "call" /\ r.attempt = 0) => IsTaskPrompt(r.model_prompt, r.prompt)
        /\ \A k \in 1..Len(r.calls) :
              /\ k = 1 => IsTaskPrompt(r.calls[k], r.prompt)
              /\ IsFixUpPrompt(r.calls[k]) => k > 1

\* a request that found an implementation file of its session at its start,
\* made its first call with the task prompt and its second with the fix-up
C17_Witness ==
    \E t \in Requests :
        LET r == req[t] IN
        /\ r.disk0[1].exists
        /\ Len(r.calls) >= 2
        /\ IsTaskPrompt(r.calls[1], r.prompt)
        /\ IsFixUpPrompt(r.calls[2])

(***************************************************************************)
(* Vocabulary of the routes' properties                                    *)
(***************************************************************************)
\* the response of a /generate request that has ended
GenerateResponse(r) ==
    IF r.response.exception # "" THEN ServerErrorPage
    ELSE JsonResponse(r.response.status, r.response.keys, r.response.success)

\* every response sent so far, by any of the four routes
Responses ==
    {GenerateResponse(req[t]) : t \in {u \in Requests : Finished(req[u])}}
    \cup (IF served.route = "none" THEN {} ELSE {served.response})

(***************************************************************************)
(* C18 as claimed: every response of the four routes is a JSON body with a *)
(* success flag, and every response that carries an error message, the     *)
(* exhausted-retries response of /generate included, has an HTTP error     *)
(* status.                                                                 *)
(***************************************************************************)
C18_ErrorsHaveErrorStatus ==
    \A resp \in Responses :
        /\ resp.body = "json"
        /\ "success" \in resp.keys
        /\ "error" \in resp.keys => resp.status >= 400

(***************************************************************************)
(* C18 as amended: a JSON response either carries a success flag and has   *)
(* status 200 (success true and no error message, or, for an exhausted     *)
(* /generate request only, success false with an error message), or        *)
(* carries an error message alone, without a success flag, and has status  *)
(* 400 or 500; the other responses are the file sent by /download_tests    *)
(* and the framework's status-500 page after an unhandled exception.       *)
(***************************************************************************)
C18_StatusFollowsBodyShape ==
    /\ \A resp \in Responses :
          \/ /\ resp.body = "json" /\ resp.status = 200
             /\ "success" \in resp.keys
             /\ resp.success <=> "error" \notin resp.keys
          \/ /\ resp.body = "json" /\ resp.status \in {400, 500}
             /\ resp.keys = {"error"}
          \/ resp = FileResponse
          \/ resp = ServerErrorPage
    /\ \A t \in Requests :
          (req[t].pc = "returned" /\ Len(req[t].attempts) = max_retries
           /\ ~LastCyclePassed(req[t]))
          => GenerateResponse(req[t]) =
                 JsonResponse(200, {"success", "attempts", "error"}, FALSE)

\* a /generate request that used up its cycles and was answered
C18_Witness ==
    \E t \in Requests :
        /\ req[t].pc = "returned"
        /\ Len(req[t].attempts) = max_retries
        /\ "error" \in GenerateResponse(req[t]).keys
        /\ GenerateResponse(req[t]).status = 200

(***************************************************************************)
(* C19: run_tests reports passed = true exactly when the exit status of    *)
(* the pytest process is 0, and for every other exit status it returns     *)
(* the pair (failed, output text): in web_app.py the standard output, a    *)
(* line break and the standard error; in app.py the standard error.        *)
(***************************************************************************)
C19_PassedIffExitZero ==
    rt.ran =>
        /\ rt.web.passed <=> rt.result.returncode = 0
        /\ rt.cli.passed <=> rt.result.returncode = 0
        /\ rt.result.returncode # 0 =>
              /\ rt.web = [passed |-> FALSE,
                           output |-> rt.result.stdout \o <<"\n">> \o rt.result.stderr]
              /\ rt.cli = [passed |-> FALSE, output |-> rt.result.stderr]

\* pytest ended with status 5 and text on both streams
C19_Witness ==
    /\ rt.ran
    /\ rt.result.returncode = 5
    /\ rt.result.stdout # <<>> /\ rt.result.stderr # <<>>
    /\ ~rt.web.passed /\ ~rt.cli.passed

(***************************************************************************)
(* C20: termination of the retry loop.                                     *)
(***************************************************************************)
\* the terminal states of a request
Succeeded(r) ==
    /\ r.pc = "returned" /\ r.response.success
    /\ LastCyclePassed(r)
Exhausted(r) ==
    /\ r.pc = "returned" /\ ~r.response.success
    /\ Len(r.attempts) = max_retries
    /\ \A k \in 1..max_retries : ~r.attempts[k].success

\* the one external call that did not return: pytest could not be started
RunnerDidNotReturn(r) ==
    /\ r.pc = "raised"
    /\ r.script # <<>>
    /\ ~r.script[Len(r.script)].available

\* cycle k of the request has been recorded as failed
CycleFailed(r, k) == Len(r.attempts) >= k /\ ~r.attempts[k].success

\* where the request has to be by now: done, as long as no external call
\* failed to return; past the next generation call after a failed cycle
\* with attempts left; answered with the failure result after the last
OwesNothing(r) ==
    /\ Entered(r) =>
          \/ Succeeded(r) /\ ~Exhausted(r)
          \/ Exhausted(r) /\ ~Succeeded(r)
          \/ RunnerDidNotReturn(r)
    /\ \A k \in 1..(max_retries - 1) :
          CycleFailed(r, k) => Len(r.calls) >= k + 1
    /\ CycleFailed(r, max_retries) =>
          (Exhausted(r) /\ r.response = FailureResponse(r))

Generating(r) == r.pc \in {"exists", "read", "call"}

\* the record of a cycle whose extraction failed
IsParseFailureRecord(rec) ==
    /\ ~rec.success
    /\ rec.func_code = <<>>
    /\ rec.test_code = <<>>
    /\ rec.test_output = <<>>
    /\ rec.error = <<"Failed to parse code blocks", " from AI response">>

\* number of recorded cycles whose extraction succeeded
Persisted(r) == Cardinality({k \in 1..Len(r.attempts) : r.attempts[k].func_code # <<>>})

\* C21: from the start of a cycle to the end of its extraction no step
\* changes either file of the request's session; the step that records a
\* failed extraction writes no file, starts no test run and appends a
\* record with empty implementation text, test text and test output and
\* the parse-failure reason; so the writes and test runs of a request are
\* those of its cycles whose extraction succeeded, two writes and one run
\* each.
C21_ParseFailureFrame ==
    [][\A t \in Requests :
          LET r == req[t]
              after == req'[t]
          IN  /\ Generating(r) =>
                    /\ disk'[FuncFile(r.session_id)] = disk[FuncFile(r.session_id)]
                    /\ disk'[TestFile(r.session_id)] = disk[TestFile(r.session_id)]
              /\ (r.pc = "call" /\ after.pc \notin {"call", "write_func"}) =>
                    /\ disk' = disk
                    /\ after.writes = r.writes
                    /\ after.runs = r.runs
                    /\ Len(after.attempts) = Len(r.attempts) + 1
                    /\ IsParseFailureRecord(after.attempts[Len(after.attempts)])
                    /\ after.pc \in {"exists", "clean_func"}
              /\ Generating(after) =>
                    /\ after.writes = 2 * Persisted(after)
                    /\ after.runs = Persisted(after)]_vars

\* a request whose first cycle failed its tests and whose second cycle
\* failed extraction: the files of the first cycle are still in place
C21_Witness ==
    \E t \in Requests :
        LET r == req[t] IN
        /\ r.pc = "exists"
        /\ Len(r.attempts) = 2
        /\ TestRunFailed(r.attempts[1])
        /\ IsParseFailureRecord(r.attempts[2])
        /\ disk[FuncFile(r.session_id)] = FileOf(FuncFileText(r.attempts[1].func_code))
        /\ disk[TestFile(r.session_id)].exists
        /\ r.writes = 2 /\ r.runs = 1

(***************************************************************************)
(* C22: requests that share a session identifier race on its files.        *)
(***************************************************************************)
\* the request's test run passed on an implementation file of the other
\* request: the text it extracted itself fails the tests
RanOthersFile(r) ==
    \E k \in 1..Len(r.attempts) :
        /\ r.attempts[k].success
        /\ ~Contains(r.attempts[k].func_code, <<CorrectBody>>)

\* the request's fix-up prompt quotes an implementation file of the other
\* request: it is not the text the request extracted in the cycle before
QuotedOthersFile(r) ==
    \E k \in 2..Len(r.calls) :
        /\ IsFixUpPrompt(r.calls[k])
        /\ ~Contains(r.calls[k], r.attempts[k - 1].func_code)

\* the other request's cleanup deleted a file between the request's write
\* and its test run: pytest found no test file, or no module to import
RanAfterOthersCleanup(r) ==
    \E k \in 1..Len(r.attempts) :
        \/ Contains(r.attempts[k].test_output, <<"ERROR: file or directory not found">>)
        \/ Contains(r.attempts[k].test_output, <<"ERROR collecting: ModuleNotFoundError">>)

\* the request with this number of arrival
RequestOf(rid) == CHOOSE t \in Requests : req[t].rid = rid

\* C22: a request that gives no session identifier works on the files of
\* 'default'; nothing keeps two such requests from being in flight
\* together, and every file a request read, ran or deleted that another
\* request had written was written under the same session identifier, by a
\* request that was in flight with it or had crashed before it. (That such
\* a use is reached is the witness.)
C22_SharedIdRaces ==
    \A t \in Requests :
        LET r == req[t] IN
        Entered(r) =>
            /\ r.session_id = "default"
            /\ \A rid \in r.touched \ {r.rid} :
                  /\ rid \in 1..started
                  /\ req[RequestOf(rid)].session_id = r.session_id
                  /\ rid \in r.concurrent \/ req[RequestOf(rid)].pc = "raised"
            /\ (RanOthersFile(r) \/ QuotedOthersFile(r) \/ RanAfterOthersCleanup(r))
                  => r.overlap

\* two requests without a session identifier, both ended: one passed its
\* tests on the other's implementation file, one quoted the other's file in
\* its fix-up prompt, one ran pytest after the other's cleanup
C22_Witness ==
    /\ \A t \in Requests : req[t].pc = "returned" /\ req[t].session_id = "default"
    /\ \E t \in Requests : RanOthersFile(req[t])
    /\ \E t \in Requests : QuotedOthersFile(req[t])
    /\ \E t \in Requests : RanAfterOthersCleanup(req[t])

(***************************************************************************)
(* C23: in run_with_retry every retry reads a last_error that an earlier   *)
(* attempt of the run has set; whatever the order of parse failures and    *)
(* test failures, the run is never ended by an exception of the retry      *)
(* path (only a pytest that cannot be started ends it so), and it returns  *)
(* False only after max_retries failed attempts.                           *)
(***************************************************************************)
C23_RetryReadsSetLastError ==
    /\ cli.pc = "prompt" => cli.last_error # Unbound
    /\ cli.pc = "raised" => cli.exception = "FileNotFoundError: pytest"
    /\ (cli.pc = "done" /\ cli.returned = "False") =>
          /\ Len(cli.outcomes) = max_retries
          /\ \A k \in 1..max_retries :
                cli.outcomes[k] \in {"parse failure", "test failure"}


(***************************************************************************)
(* C24: the shape of the attempts history in a result of /generate.        *)
(***************************************************************************)
\* the request was answered with a result that carries an attempts history
HasResult(r) == r.pc = "returned" /\ "attempts" \in r.response.keys

\* positions of the history whose record has success = true
SuccessfulRecords(attempts) == {k \in 1..Len(attempts) : attempts[k].success}

\* C24: in every result returned by /generate the attempts history is not
\* empty, at most one of its records has success = true and that record is
\* the last one, the overall success flag equals the success field of the
\* last record, and every record before the last has success = false and a
\* non-empty error text.
C24_OnlyLastRecordSucceeds ==
    \A t \in Requests :
        LET r == req[t]
            attempts == r.response.attempts
        IN  HasResult(r) =>
                /\ Len(attempts) \in 1..max_retries
                /\ Cardinality(SuccessfulRecords(attempts)) <= 1
                /\ SuccessfulRecords(attempts) \subseteq {Len(attempts)}
                /\ r.response.success = attempts[Len(attempts)].success
                /\ \A k \in 1..(Len(attempts) - 1) :
                      /\ ~attempts[k].success
                      /\ attempts[k].error # <<>>

\* a result whose third cycle passed after a failed extraction and a failed
\* test run, in either order
C24_Witness ==
    \E t \in Requests :
        LET r == req[t]
            attempts == r.response.attempts
        IN  /\ HasResult(r)
            /\ r.response.success
            /\ Len(attempts) = 3
            /\ attempts[3].success
            /\ \E i, j \in 1..2 :
                  /\ IsParseFailureRecord(attempts[i])
                  /\ TestRunFailed(attempts[j])

=============================================================================
